---------------------------- MODULE Spec2Model ----------------------------
(***************************************************************************)
(* Model of src/app.js: the schedule parser (parseSchedulePDF and the pure *)
(* helpers it calls) and the day classifier.                               *)
(*                                                                         *)
(* A JavaScript string is modelled as a sequence of one-character strings, *)
(* so that trim, toUpperCase, join and the regular expressions of the      *)
(* source are computed character by character.  The alphabet used by the   *)
(* inputs is ASCII letters, digits, space, tab and "."; on that alphabet   *)
(* the letter class of looksLikeEmployeeName (ASCII letters plus an        *)
(* accented range) contains exactly the ASCII letters.                     *)
(***************************************************************************)
EXTENDS Integers, Sequences, FiniteSets, TLC

VARIABLES
    pc,             \* position of parseSchedulePDF: "page", "lines", "done"; "call"/"ret" for a pure call
    numPages,       \* pdf.numPages
    p,              \* page loop counter
    items,          \* items of the page read last (line 132)
    headerLine,     \* result of pickBestDayHeaderLine for that page, <<>> for null
    dayAnchors,     \* day anchors of the current page
    minDayX,        \* minimum anchor x of the current page
    pending,        \* y keys of the current page still to be visited (descending)
    lines,          \* groupByLine(items) of the current page
    currentShift,   \* the page loop's currentShift
    employees,      \* accumulated employees
    shifts,         \* accumulated shifts set
    detectedMonth,  \* detected month or none
    detectedYear,   \* detected year or none
    result,         \* the returned record, or <<>> while running
    labelOnPage,    \* history: a shift label was seen on the current page
    prevEndShift,   \* history: shift the previous page ended with if a label set it, else null
    today,          \* the system date read by new Date(): [year, month]
    fnIn,           \* argument of a pure call
    fnOut           \* result of a pure call

vars == <<pc, numPages, p, items, headerLine, dayAnchors, minDayX, pending, lines,
          currentShift, employees, shifts, detectedMonth, detectedYear, result,
          labelOnPage, prevEndShift, today, fnIn, fnOut>>

---------------------------------------------------------------------------
(* JavaScript values *)

\* null / undefined in a string-typed position: no text equals it
null == <<"null">>

\* null in a number-typed position
none == -1

Truthy(s) == s # null /\ s # <<>>

TruthyNum(n) == n # none /\ n # 0

Lower == <<"a","b","c","d","e","f","g","h","i","j","k","l","m","n","o","p","q","r","s","t","u","v","w","x","y","z">>

Upper == <<"A","B","C","D","E","F","G","H","I","J","K","L","M","N","O","P","Q","R","S","T","U","V","W","X","Y","Z">>

Digits == <<"0","1","2","3","4","5","6","7","8","9">>

Range(s) == {s[i] : i \in DOMAIN s}

IndexOf(s, c) == CHOOSE i \in DOMAIN s : s[i] = c

IsSpace(c) == c \in {" ", "\t"}

IsDigit(c) == c \in Range(Digits)

IsAlpha(c) == c \in Range(Lower) \cup Range(Upper)

IsWordChar(c) == IsAlpha(c) \/ IsDigit(c) \/ c = "_"

UpperChar(c) == IF c \in Range(Lower) THEN Upper[IndexOf(Lower, c)] ELSE c

LowerChar(c) == IF c \in Range(Upper) THEN Lower[IndexOf(Upper, c)] ELSE c

toUpperCase(s) == [i \in DOMAIN s |-> UpperChar(s[i])]

toLowerCase(s) == [i \in DOMAIN s |-> LowerChar(s[i])]

SetMin(S) == CHOOSE m \in S : \A n \in S : m <= n

SetMax(S) == CHOOSE m \in S : \A n \in S : m >= n

\* String.prototype.trim
trim(s) ==
    LET ns == {i \in DOMAIN s : ~IsSpace(s[i])}
    IN  IF ns = {} THEN <<>> ELSE SubSeq(s, SetMin(ns), SetMax(ns))

\* s.replace(/\s+/g, " ")
RECURSIVE CollapseFrom(_, _)
CollapseFrom(s, i) ==
    IF i > Len(s) THEN <<>>
    ELSE IF IsSpace(s[i])
         THEN IF i > 1 /\ IsSpace(s[i-1]) THEN CollapseFrom(s, i+1)
              ELSE <<" ">> \o CollapseFrom(s, i+1)
         ELSE <<s[i]>> \o CollapseFrom(s, i+1)

collapseWs(s) == CollapseFrom(s, 1)

startsWith(s, pre) == Len(pre) <= Len(s) /\ SubSeq(s, 1, Len(pre)) = pre

includes(s, sub) ==
    \E i \in 1..(Len(s) - Len(sub) + 1) : SubSeq(s, i, i + Len(sub) - 1) = sub

\* Array.prototype.join(" ")
RECURSIVE join(_)
join(strs) ==
    IF strs = <<>> THEN <<>>
    ELSE IF Len(strs) = 1 THEN strs[1]
    ELSE strs[1] \o <<" ">> \o join(Tail(strs))

\* /^\d{1,2}$/
IsDayNumber(s) == Len(s) \in {1, 2} /\ \A i \in DOMAIN s : IsDigit(s[i])

\* Number(s) for a string of decimal digits
RECURSIVE Number(_)
Number(s) ==
    IF s = <<>> THEN 0
    ELSE 10 * Number(SubSeq(s, 1, Len(s) - 1)) + (IndexOf(Digits, s[Len(s)]) - 1)

---------------------------------------------------------------------------
(* Day classifier *)

OFF_CODES == { <<"F","G">>, <<"F","A">>, <<"F","C">>, <<"F","E">>, <<"F","F">>,
               <<"F","A","N">>, <<"C","O","V","E">> }

ABSENT_CODES == { <<"D","M">>, <<"E","M","T">>, <<"A","J">>, <<"X">> }

\* variant: the code is upper-cased but not trimmed
ClassifyKey_NoTrim(code) == toUpperCase(IF Truthy(code) THEN code ELSE <<>>)

\* (code || "").trim().toUpperCase()
ClassifyKey(code) == toUpperCase(trim(IF Truthy(code) THEN code ELSE <<>>))

classify(code) ==
    LET c == ClassifyKey(code)
    IN  IF c = <<>> THEN "working"
        ELSE IF c \in OFF_CODES THEN "off"
        ELSE IF c \in ABSENT_CODES THEN "absent"
        ELSE "working"

---------------------------------------------------------------------------
(* Pure helpers of the parser *)

MonthNames == << <<"j","a","n","u","a","r","y">>, <<"f","e","b","r","u","a","r","y">>,
                 <<"m","a","r","c","h">>, <<"a","p","r","i","l">>, <<"m","a","y">>,
                 <<"j","u","n","e">>, <<"j","u","l","y">>, <<"a","u","g","u","s","t">>,
                 <<"s","e","p","t","e","m","b","e","r">>, <<"o","c","t","o","b","e","r">>,
                 <<"n","o","v","e","m","b","e","r">>, <<"d","e","c","e","m","b","e","r">> >>

monthNameToNumber(name) ==
    LET n == toLowerCase(name)
    IN  IF n \in Range(MonthNames) THEN IndexOf(MonthNames, n) ELSE none

\* Math.round(y / 2) * 2 for an integer y: a half rounds up
yKeyOf(y) == IF y % 2 = 0 THEN y ELSE y + 1

HeaderThreshold == 20

Tolerance == 12

\* the scan of nearestDay over anchors[1..n]: <<best, bestDist>>, bestDist = none for Infinity
RECURSIVE NearestScan(_, _, _)
NearestScan(x, anchors, n) ==
    IF n = 0 THEN <<none, none>>
    ELSE LET prev == NearestScan(x, anchors, n - 1)
             a == anchors[n]
             d == IF x >= a.x THEN x - a.x ELSE a.x - x
         IN  IF prev[2] = none \/ d < prev[2] THEN <<a.day, d>> ELSE prev

WithinTolerance(d) == d # none /\ d < Tolerance

nearestDay(x, anchors) ==
    LET r == NearestScan(x, anchors, Len(anchors))
    IN  IF WithinTolerance(r[2]) THEN r[1] ELSE none

\* /^SHIFT\s+(.+)$/i on t: the index where the captured group starts, 0 if no match
ShiftGroupStart(t) ==
    IF Len(t) >= 7 /\ toUpperCase(SubSeq(t, 1, 5)) = <<"S","H","I","F","T">> /\ IsSpace(t[6])
    THEN LET starts == {j \in 7..Len(t) : \A k \in 6..(j-1) : IsSpace(t[k])}
         IN  SetMax(starts \cup {0})
    ELSE 0

DirectLabels == << <<"G","S","E">>, <<"T","O","O","L","I","N","G">>,
                   <<"A","D","M","I","N","I","S","T",".">>, <<"A","D","M","I","N","I","S","T">>,
                   <<"S","U","P","E","R","V","I","S","O","R","S">>,
                   <<"S","H","I","F","T"," ","B","2">>, <<"S","H","I","F","T"," ","C">>,
                   <<"S","H","I","F","T"," ","B">> >>

detectShiftLabel(text) ==
    LET t == trim(collapseWs(text))
        g == ShiftGroupStart(t)
        hits == {i \in DOMAIN DirectLabels : toUpperCase(t) = toUpperCase(DirectLabels[i])}
    IN  IF g > 0 THEN collapseWs(trim(SubSeq(t, g, Len(t))))
        ELSE IF hits # {} THEN DirectLabels[SetMin(hits)]
        ELSE null

\* /^\d(\s+\d){5,}/ : the number of repetitions of (\s+\d) that can follow position i
RECURSIVE DigitReps(_, _)
DigitReps(t, i) ==
    LET js == {j \in (i+2)..Len(t) : IsDigit(t[j]) /\ \A k \in (i+1)..(j-1) : IsSpace(t[k])}
    IN  IF js = {} THEN 0 ELSE 1 + DigitReps(t, SetMin(js))

DigitRun(t) == Len(t) >= 1 /\ IsDigit(t[1]) /\ DigitReps(t, 1) >= 5

isNonEmployeeLine(text) ==
    LET t == trim(toUpperCase(text))
    IN  IF t = <<>> THEN TRUE
        ELSE \/ includes(t, <<"M","O","N","T","H","L","Y"," ","S","C","H","E","D","U","L","E">>)
             \/ startsWith(t, <<"T","O","T","A","L">>)
             \/ includes(t, <<"H","E","A","D"," ","C","O","U","N","T">>)
             \/ includes(t, <<"F","E","R","I","A","D","O">>)
             \/ includes(t, <<"L","A","S","T"," ","R","E","V">>)
             \/ startsWith(t, <<"S","U","N"," ">>)
             \/ DigitRun(t)

\* /^W\b/i for a word W of letters
StartsWithWord(t, w) ==
    /\ startsWith(toUpperCase(t), w)
    /\ (Len(t) = Len(w) \/ ~IsWordChar(t[Len(w) + 1]))

looksLikeEmployeeName(leftText) ==
    LET t == trim(leftText)
    IN  IF t = <<>> \/ Len(t) < 3 THEN FALSE
        ELSE IF StartsWithWord(t, <<"T","O","T","A","L">>) THEN FALSE
        ELSE IF StartsWithWord(t, <<"H","E","A","D">>) THEN FALSE
        ELSE \E i \in DOMAIN t : IsAlpha(t[i])

\* (\d{1,2}|fe) with the i flag
IsStrayTail(s) == IsDayNumber(s) \/ toLowerCase(s) = <<"f","e">>

\* start of the leftmost match of /\s+(\d{1,2}|fe)\s*$/i in t, 0 if none
StrayTailStart(t) ==
    LET n == Len(t)
        ms == {i \in 1..n :
                 /\ IsSpace(t[i])
                 /\ \E a \in (i+1)..n : \E b \in a..n :
                       /\ \A k \in i..(a-1) : IsSpace(t[k])
                       /\ IsStrayTail(SubSeq(t, a, b))
                       /\ \A k \in (b+1)..n : IsSpace(t[k])}
    IN  IF ms = {} THEN 0 ELSE SetMin(ms)

cleanEmployeeName(leftText) ==
    LET t == trim(collapseWs(leftText))
        i == StrayTailStart(t)
    IN  IF i = 0 THEN trim(t) ELSE trim(SubSeq(t, 1, i - 1))

\* /^[A-Za-z]{1,6}\d{0,3}$/
AlnumCode(t) ==
    \E k \in 1..6 :
        /\ k <= Len(t) /\ Len(t) - k <= 3
        /\ \A i \in 1..k : IsAlpha(t[i])
        /\ \A i \in (k+1)..Len(t) : IsDigit(t[i])

\* /^[A-Za-z]{2,6}$/
AlphaCode(t) == Len(t) \in 2..6 /\ \A i \in DOMAIN t : IsAlpha(t[i])

normalizeCode(s) ==
    LET t == trim(IF Truthy(s) THEN s ELSE <<>>)
    IN  IF t = <<>> THEN null
        ELSE IF IsDayNumber(t) THEN null
        ELSE IF toLowerCase(t) \in Range(MonthNames) THEN null
        ELSE IF AlnumCode(t) \/ AlphaCode(t) THEN toUpperCase(t)
        ELSE null

---------------------------------------------------------------------------
(* parseSchedulePDF: page-level helpers *)

Tok(s, x, y) == [str |-> s, x |-> x, y |-> y]

\* tc.items.map(it => ({str: (it.str || "").trim(), ...})).filter(o => o.str.length)
RECURSIVE ItemsOf(_)
ItemsOf(raw) ==
    IF raw = <<>> THEN <<>>
    ELSE LET o == [Head(raw) EXCEPT !.str = trim(@)]
         IN  (IF Len(o.str) > 0 THEN <<o>> ELSE <<>>) \o ItemsOf(Tail(raw))

Strs(toks) == [i \in DOMAIN toks |-> toks[i].str]

\* is month name k followed by whitespace and four digits at position i of t,
\* with a word boundary on both sides of the name
MonthYearAt(t, i, k) ==
    LET n == Len(MonthNames[k])
        e == i + n
        ds == {j \in (e+1)..(Len(t) - 3) :
                 /\ \A q \in e..(j-1) : IsSpace(t[q])
                 /\ \A q \in j..(j+3) : IsDigit(t[q])}
    IN  /\ i + n - 1 <= Len(t)
        /\ (i = 1 \/ ~IsWordChar(t[i-1]))
        /\ toLowerCase(SubSeq(t, i, i + n - 1)) = MonthNames[k]
        /\ ds # {}

\* fullText.match(/\b(January|...|December)\b\s+(\d{4})/i): <<m[1], m[2]>>, or <<>> for null
MatchMonthYear(t) ==
    LET hits == {i \in DOMAIN t : \E k \in DOMAIN MonthNames : MonthYearAt(t, i, k)}
    IN  IF hits = {} THEN <<>>
        ELSE LET i == SetMin(hits)
                 k == SetMin({k \in DOMAIN MonthNames : MonthYearAt(t, i, k)})
                 e == i + Len(MonthNames[k])
                 j == SetMin({j \in (e+1)..Len(t) : ~IsSpace(t[j])})
             IN  <<SubSeq(t, i, e - 1), SubSeq(t, j, j + 3)>>

\* the guard of line 139
DetectNow(m, year) == m # <<>> /\ ~TruthyNum(year)

\* groupByLine: the Map as a sequence of [y, toks] in insertion order
RECURSIVE groupByLine(_)
groupByLine(its) ==
    IF its = <<>> THEN <<>>
    ELSE LET n == Len(its)
             prev == groupByLine(SubSeq(its, 1, n - 1))
             k == yKeyOf(its[n].y)
             at == {i \in DOMAIN prev : prev[i].y = k}
         IN  IF at = {} THEN Append(prev, [y |-> k, toks |-> <<its[n]>>])
             ELSE [prev EXCEPT ![SetMin(at)].toks = Append(@, its[n])]

DayCount(line) == Cardinality({i \in DOMAIN line : IsDayNumber(line[i].str)})

\* the scan of pickBestDayHeaderLine over the first n lines: <<best, bestCount>>
RECURSIVE PickScan(_, _)
PickScan(ls, n) ==
    IF n = 0 THEN << <<>>, 0 >>
    ELSE LET prev == PickScan(ls, n - 1)
             count == DayCount(ls[n].toks)
         IN  IF count > prev[2] THEN <<ls[n].toks, count>> ELSE prev

\* variant: the threshold off by one
Accepts_Off(bestCount) == bestCount >= HeaderThreshold - 1

\* line 59
Accepts(bestCount) == bestCount >= HeaderThreshold

\* <<>> stands for null
pickBestDayHeaderLine(ls) ==
    LET r == PickScan(ls, Len(ls))
    IN  IF Accepts(r[2]) THEN r[1] ELSE <<>>

\* Array.prototype.sort((a,b) => a.x - b.x), stable
RECURSIVE SortByX(_)
SortByX(toks) ==
    IF Len(toks) <= 1 THEN toks
    ELSE LET n == Len(toks)
             prev == SortByX(SubSeq(toks, 1, n - 1))
             t == toks[n]
             k == Cardinality({i \in DOMAIN prev : prev[i].x <= t.x})
         IN  SubSeq(prev, 1, k) \o <<t>> \o SubSeq(prev, k + 1, Len(prev))

\* Array.prototype.filter: the elements of toks at the indices in keep, in order
FilterAt(toks, keep) ==
    LET F[i \in 0..Len(toks)] ==
          IF i = 0 THEN <<>>
          ELSE IF i \in keep THEN Append(F[i-1], toks[i]) ELSE F[i-1]
    IN  F[Len(toks)]

\* lines 148-152
DayAnchorsOf(header) ==
    LET dayCols == SortByX(FilterAt(header, {i \in DOMAIN header : IsDayNumber(header[i].str)}))
    IN  [i \in DOMAIN dayCols |-> [day |-> Number(dayCols[i].str), x |-> dayCols[i].x]]

MinDayX(anchors) == SetMin({anchors[i].x : i \in DOMAIN anchors})

\* Array.from(lines.keys()).sort((a,b) => Number(b) - Number(a))
RECURSIVE SortDesc(_)
SortDesc(S) ==
    IF S = {} THEN <<>> ELSE LET m == SetMax(S) IN <<m>> \o SortDesc(S \ {m})

YKeys(ls) == SortDesc({ls[i].y : i \in DOMAIN ls})

LineAt(ls, yKey) == SortByX(ls[CHOOSE i \in DOMAIN ls : ls[i].y = yKey].toks)

TextOf(line) == trim(join(Strs(line)))

\* variant: no upper limit on the day
InRange_NoUpper(day) == day >= 1

\* line 185
InRange(day) == day >= 1 /\ day <= 31

\* lines 180-186 over the first n tokens of the right region
RECURSIVE CodesScan(_, _, _)
CodesScan(right, n, anchors) ==
    IF n = 0 THEN <<>>
    ELSE LET prev == CodesScan(right, n - 1, anchors)
             code == normalizeCode(right[n].str)
             day == nearestDay(right[n].x, anchors)
         IN  IF ~Truthy(code) THEN prev
             ELSE IF ~TruthyNum(day) THEN prev
             ELSE IF InRange(day)
                  THEN [d \in (DOMAIN prev) \cup {day} |-> IF d = day THEN code ELSE prev[d]]
                  ELSE prev

LeftOf(line, mdx) == FilterAt(line, {i \in DOMAIN line : line[i].x < mdx - Tolerance})

RightOf(line, mdx) == FilterAt(line, {i \in DOMAIN line : line[i].x >= mdx - Tolerance})

\* variant: the row's shift is not registered
ShiftsAfterRow_NoAdd(sh, cur) == sh

\* line 189
ShiftsAfterRow(sh, cur) == sh \cup {cur}

\* new Date(year, month, 0).getDate(); a year 0..99 denotes 1900 + year
DaysInMonth(year, month) ==
    LET y == IF year >= 0 /\ year <= 99 THEN 1900 + year ELSE year
        leap == (y % 4 = 0 /\ y % 100 # 0) \/ y % 400 = 0
    IN  IF month = 2 THEN (IF leap THEN 29 ELSE 28)
        ELSE IF month \in {4, 6, 9, 11} THEN 30 ELSE 31

---------------------------------------------------------------------------
(* Input documents: the texts and positions the extraction can deliver *)

s_JOHN == <<"J","O","H","N">>

s_SMITH == <<"S","M","I","T","H">>

s_ANA == <<"A","N","A">>

s_MARIA == <<"M","A","R","I","A">>

s_PEDRO == <<"P","E","D","R","O">>

s_NAME == <<"N","A","M","E">>

s_TOTAL == <<"T","O","T","A","L">>

s_GSE == <<"G","S","E">>

s_SHIFT == <<"S","H","I","F","T">>

s_B == <<"B">>

s_B2 == <<"B","2">>

s_C == <<"C">>

s_MONTHLY_SCHEDULE == <<"M","O","N","T","H","L","Y"," ","S","C","H","E","D","U","L","E">>

s_HEAD_COUNT == <<"H","E","A","D"," ","C","O","U","N","T">>

s_January == <<"J","a","n","u","a","r","y">>

s_February == <<"F","e","b","r","u","a","r","y">>

s_March == <<"M","a","r","c","h">>

s_2024 == <<"2","0","2","4">>

s_2023 == <<"2","0","2","3">>

s_0000 == <<"0","0","0","0">>

s_FG == <<"F","G">>

s_dm == <<"d","m">>

s_X == <<"X">>

s_AJ == <<"A","J">>

s_MAY == <<"M","A","Y">>

s_A1 == <<"A","1">>

s_ABCDEFG == <<"A","B","C","D","E","F","G">>

s_FF == <<"F","F">>

s_FC == <<"F","C">>

s_FE == <<"F","E">>

s_fe == <<"f","e">>

s_2 == <<"2">>

s_3 == <<"3">>

s_45 == <<"4","5">>

s_12 == <<"1","2">>

s_99 == <<"9","9">>

s_01 == <<"0","1">>

s_0 == <<"0">>

DayStr(n) == IF n < 10 THEN <<Digits[n + 1]>> ELSE <<Digits[(n \div 10) + 1], Digits[(n % 10) + 1]>>

\* day strings a, a+1, ..., b
DaySeq(a, b) == [i \in 1..(b - a + 1) |-> DayStr(a + i - 1)]

\* x of the i-th day column
ColX(i) == 100 + 30 * i

HeaderRow(days, y) == [i \in DOMAIN days |-> Tok(days[i], ColX(i), y)]

Title(month, year, y) == << Tok(s_MONTHLY_SCHEDULE, 20, y), Tok(month, 200, y), Tok(year, 260, y) >>

\* title January 2024, header 1..20, a section B with one row, a totals row
PageJan ==
    << Tok(s_FG, ColX(1), 660), Tok(<<" ", "\t">>, 5, 690) >>
    \o Title(s_January, s_2024, 750)
    \o HeaderRow(DaySeq(1, 20), 700)
    \o << Tok(s_SHIFT, 20, 680), Tok(s_B, 60, 680),
          Tok(s_SMITH, 50, 660), Tok(s_JOHN, 20, 659),
          Tok(s_dm, ColX(2) + 11, 660), Tok(s_X, ColX(3) + 12, 660), Tok(s_AJ, ColX(4) + 13, 660),
          Tok(s_3, ColX(5), 660), Tok(s_MAY, ColX(6), 660), Tok(s_A1, ColX(7), 660),
          Tok(s_ABCDEFG, ColX(8), 660), Tok(s_FE, ColX(20), 660),
          Tok(s_TOTAL, 20, 640), Tok(s_45, ColX(1), 640), Tok(s_12, ColX(2), 640) >>

\* header 10..29, a row before any label, then a section GSE with one row
PageCont ==
    HeaderRow(DaySeq(10, 29), 700)
    \o << Tok(s_ANA, 20, 680), Tok(s_2, 60, 680), Tok(s_fe, 80, 680), Tok(s_FG, ColX(1), 680),
          Tok(s_GSE, 20, 660),
          Tok(s_MARIA, 20, 640), Tok(s_FF, ColX(1) - 12, 640), Tok(s_FC, ColX(3), 640) >>

\* a cover page: a title with year 0000, no header
PageCover0 == Title(s_February, s_0000, 750)

\* a title, 19 day numbers, a label and a row
PageShort ==
    Title(s_March, s_2023, 750)
    \o HeaderRow(DaySeq(1, 19), 700)
    \o << Tok(s_SHIFT, 20, 680), Tok(s_C, 60, 680),
          Tok(s_PEDRO, 20, 660), Tok(s_FG, ColX(1), 660) >>

\* the header line carries a column title left of the day numbers
PageTitled ==
    << Tok(s_NAME, 20, 700) >>
    \o HeaderRow(DaySeq(1, 20), 700)
    \o << Tok(s_SHIFT, 20, 680), Tok(s_B2, 60, 680),
          Tok(s_MARIA, 20, 660), Tok(s_FG, ColX(2), 660) >>

\* header 0, 01, 2..16, 31, 32, 99; a row with codes under the columns 0, 01, 4, 31, 32
\* and 99, a row without a name, a head-count row
PageOdd ==
    HeaderRow(<<s_0, s_01>> \o DaySeq(2, 16) \o DaySeq(31, 32) \o <<s_99>>, 700)
    \o << Tok(s_PEDRO, 20, 680), Tok(s_FC, ColX(1) - 11, 680), Tok(s_FG, ColX(2), 680),
          Tok(s_FE, ColX(20), 680), Tok(s_X, ColX(5), 680), Tok(s_AJ, ColX(5) + 3, 680),
          Tok(s_FF, ColX(18), 680), Tok(s_dm, ColX(19), 680),
          Tok(s_FG, ColX(4), 660),
          Tok(s_HEAD_COUNT, 20, 640), Tok(s_12, ColX(1), 640) >>

Pages == {PageJan, PageCont, PageCover0, PageShort, PageTitled, PageOdd}

Dates == {[year |-> 2026, month |-> 11], [year |-> 2027, month |-> 1]}

MaxPages == 3

---------------------------------------------------------------------------
(* parseSchedulePDF *)

\* the initial value of currentShift (line 156)
Unknown == <<"U","n","k","n","o","w","n">>

\* lines 124-126 and the loop variables before the first page
ParseStart ==
    /\ p = 1
    /\ items = <<>>
    /\ headerLine = <<>>
    /\ dayAnchors = <<>>
    /\ minDayX = 0
    /\ pending = <<>>
    /\ lines = <<>>
    /\ currentShift = Unknown
    /\ employees = <<>>
    /\ shifts = {}
    /\ detectedMonth = none
    /\ detectedYear = none
    /\ result = <<>>
    /\ labelOnPage = FALSE
    /\ prevEndShift = null

Init ==
    /\ pc = "page"
    /\ numPages \in 1..MaxPages
    /\ today \in Dates
    /\ ParseStart
    /\ fnIn = <<>>
    /\ fnOut = <<>>

\* lines 132-155: what one page yields before its line loop
PageView(raw) ==
    LET its == ItemsOf(raw)
        ls == groupByLine(its)
        h == pickBestDayHeaderLine(ls)
        a == IF h = <<>> THEN <<>> ELSE DayAnchorsOf(h)
    IN  [items |-> its,
         m |-> MatchMonthYear(join(Strs(its))),
         lines |-> ls,
         headerLine |-> h,
         dayAnchors |-> a,
         minDayX |-> IF h = <<>> THEN 0 ELSE MinDayX(a),
         yKeys |-> IF h = <<>> THEN <<>> ELSE YKeys(ls)]

\* lines 159-186: what one line of a page with a header yields
LineView(ls, yKey, mdx, anchors) ==
    LET line == LineAt(ls, yKey)
        text == TextOf(line)
        right == RightOf(line, mdx)
        leftText == TextOf(LeftOf(line, mdx))
    IN  [sLabel |-> detectShiftLabel(text),
         noise |-> isNonEmployeeLine(text),
         isName |-> looksLikeEmployeeName(leftText),
         name |-> cleanEmployeeName(leftText),
         codes |-> CodesScan(right, Len(right), anchors)]

\* the page computations are functions of the page alone: computed once per page
PageViews == [raw \in Pages |-> PageView(raw)]

LineViews ==
    [its \in {PageViews[raw].items : raw \in {r \in Pages : PageViews[r].headerLine # <<>>}} |->
        LET v == PageViews[CHOOSE raw \in Pages : PageViews[raw].items = its]
        IN  [k \in Range(v.yKeys) |-> LineView(v.lines, k, v.minDayX, v.dayAnchors)]]

\* lines 139-142
Detect(m) ==
    IF DetectNow(m, detectedYear)
    THEN /\ detectedYear' = Number(m[2])
         /\ detectedMonth' = monthNameToNumber(m[1])
    ELSE UNCHANGED <<detectedYear, detectedMonth>>

\* lines 129-146, no line clears the threshold: continue
ReadPageNoHeader(raw) ==
    /\ pc = "page" /\ p <= numPages
    /\ LET v == PageViews[raw]
       IN  /\ v.headerLine = <<>>
           /\ Detect(v.m)
           /\ items' = v.items
           /\ lines' = v.lines
           /\ headerLine' = <<>>
    /\ p' = p + 1
    /\ prevEndShift' = null
    /\ UNCHANGED <<pc, numPages, dayAnchors, minDayX, pending, currentShift, employees,
                   shifts, result, labelOnPage, today, fnIn, fnOut>>

\* lines 129-156, a header line is accepted
ReadPageHeader(raw) ==
    /\ pc = "page" /\ p <= numPages
    /\ LET v == PageViews[raw]
       IN  /\ v.headerLine # <<>>
           /\ Detect(v.m)
           /\ items' = v.items
           /\ lines' = v.lines
           /\ headerLine' = v.headerLine
           /\ dayAnchors' = v.dayAnchors
           /\ minDayX' = v.minDayX
           /\ pending' = v.yKeys
    /\ currentShift' = Unknown
    /\ labelOnPage' = FALSE
    /\ pc' = "lines"
    /\ UNCHANGED <<numPages, p, employees, shifts, result, prevEndShift, today, fnIn, fnOut>>

\* the line the loop of line 158 is at
Cur == LineViews[items][Head(pending)]

\* lines 162-167
LabelLine ==
    /\ pc = "lines" /\ pending # <<>>
    /\ Truthy(Cur.sLabel)
    /\ currentShift' = Cur.sLabel
    /\ shifts' = shifts \cup {Cur.sLabel}
    /\ labelOnPage' = TRUE
    /\ pending' = Tail(pending)
    /\ UNCHANGED <<pc, numPages, p, items, headerLine, dayAnchors, minDayX, lines, employees,
                   detectedMonth, detectedYear, result, prevEndShift, today, fnIn, fnOut>>

\* line 169
NoiseLine ==
    /\ pc = "lines" /\ pending # <<>>
    /\ ~Truthy(Cur.sLabel)
    /\ Cur.noise
    /\ pending' = Tail(pending)
    /\ UNCHANGED <<pc, numPages, p, items, headerLine, dayAnchors, minDayX, lines, currentShift,
                   employees, shifts, detectedMonth, detectedYear, result, labelOnPage,
                   prevEndShift, today, fnIn, fnOut>>

\* lines 171-175
NotNameLine ==
    /\ pc = "lines" /\ pending # <<>>
    /\ ~Truthy(Cur.sLabel)
    /\ ~Cur.noise
    /\ ~Cur.isName
    /\ pending' = Tail(pending)
    /\ UNCHANGED <<pc, numPages, p, items, headerLine, dayAnchors, minDayX, lines, currentShift,
                   employees, shifts, detectedMonth, detectedYear, result, labelOnPage,
                   prevEndShift, today, fnIn, fnOut>>

\* lines 171-189
EmployeeRow ==
    /\ pc = "lines" /\ pending # <<>>
    /\ ~Truthy(Cur.sLabel)
    /\ ~Cur.noise
    /\ Cur.isName
    /\ employees' = Append(employees, [name |-> Cur.name, shift |-> currentShift, codes |-> Cur.codes])
    /\ shifts' = ShiftsAfterRow(shifts, currentShift)
    /\ pending' = Tail(pending)
    /\ UNCHANGED <<pc, numPages, p, items, headerLine, dayAnchors, minDayX, lines, currentShift,
                   detectedMonth, detectedYear, result, labelOnPage, prevEndShift, today,
                   fnIn, fnOut>>

\* the line loop of a page is exhausted: next page
EndPage ==
    /\ pc = "lines" /\ pending = <<>>
    /\ p' = p + 1
    /\ pc' = "page"
    /\ prevEndShift' = IF labelOnPage THEN currentShift ELSE null
    /\ UNCHANGED <<numPages, items, headerLine, dayAnchors, minDayX, pending, lines, currentShift,
                   employees, shifts, detectedMonth, detectedYear, result, labelOnPage, today,
                   fnIn, fnOut>>

\* lines 193-197
Finish ==
    /\ pc = "page" /\ p > numPages
    /\ LET year == IF TruthyNum(detectedYear) THEN detectedYear ELSE today.year
           month == IF TruthyNum(detectedMonth) THEN detectedMonth ELSE today.month
       IN  result' = [month |-> month, year |-> year, daysInMonth |-> DaysInMonth(year, month),
                      employees |-> employees, shifts |-> shifts]
    /\ pc' = "done"
    /\ UNCHANGED <<numPages, p, items, headerLine, dayAnchors, minDayX, pending, lines,
                   currentShift, employees, shifts, detectedMonth, detectedYear, labelOnPage,
                   prevEndShift, today, fnIn, fnOut>>

Next ==
    \/ \E raw \in Pages : ReadPageNoHeader(raw)
    \/ \E raw \in Pages : ReadPageHeader(raw)
    \/ LabelLine
    \/ NoiseLine
    \/ NotNameLine
    \/ EmployeeRow
    \/ EndPage
    \/ Finish

Spec == Init /\ [][Next]_vars

---------------------------------------------------------------------------
(* The pure functions, called on inputs drawn from bounded sets *)

parseVars == <<numPages, p, items, headerLine, dayAnchors, minDayX, pending, lines,
               currentShift, employees, shifts, detectedMonth, detectedYear, result,
               labelOnPage, prevEndShift, today>>

InitCall(inputs) ==
    /\ pc = "call"
    /\ numPages = 1
    /\ today \in Dates
    /\ ParseStart
    /\ fnIn \in inputs
    /\ fnOut = <<>>

SeqsUpTo(S, n) == UNION {[1..k -> S] : k \in 0..n}

\* classify: codes in upper, lower and mixed case, with and without surrounding spaces,
\* the empty and blank strings and a missing code
LowerFirst(c) == [i \in DOMAIN c |-> IF i = 1 THEN LowerChar(c[i]) ELSE c[i]]

CodeTexts ==
    OFF_CODES \cup ABSENT_CODES
    \cup { <<"N">>, <<"F">>, <<"F","G","X">>, <<"X","X">>, <<"D","1">>, <<"F"," ","G">> }

ClassifyInputs ==
    { l \o c \o r : l \in {<<>>, <<" ">>}, r \in {<<>>, <<" ">>, <<"\t", " ">>},
                    c \in UNION {{t, toLowerCase(t), LowerFirst(t)} : t \in CodeTexts} }
    \cup {null, <<>>, <<" ">>}

InitClassify == InitCall(ClassifyInputs)

\* lines 208-209: classify(emp.codes[String(day)] || "")
CallClassify ==
    /\ pc = "call"
    /\ fnOut' = classify(fnIn)
    /\ pc' = "ret"
    /\ UNCHANGED <<parseVars, fnIn>>

NextClassify == CallClassify

SpecClassify == InitClassify /\ [][NextClassify]_vars

\* cleanEmployeeName: name words followed by trailing numbers or "fe" tokens
MaxWords == 2

MaxTrail == 2

CleanInputs ==
    { join(w \o t) : w \in SeqsUpTo({s_JOHN, s_SMITH}, MaxWords),
                     t \in SeqsUpTo({s_2, s_12, s_fe, s_FE}, MaxTrail) }

InitClean == InitCall(CleanInputs)

\* line 177
CleanOnce ==
    /\ pc = "call"
    /\ fnOut' = <<cleanEmployeeName(fnIn)>>
    /\ pc' = "ret"
    /\ UNCHANGED <<parseVars, fnIn>>

\* line 177, on the name the first call returned
CleanAgain ==
    /\ pc = "ret"
    /\ fnOut' = Append(fnOut, cleanEmployeeName(fnOut[1]))
    /\ pc' = "ret2"
    /\ UNCHANGED <<parseVars, fnIn>>

NextClean == CleanOnce \/ CleanAgain

SpecClean == InitClean /\ [][NextClean]_vars

\* nearestDay: the anchors of three pages (one without anchors) and every x around
\* the first three columns
NearestInputs ==
    { [x |-> x, anchors |-> PageViews[raw].dayAnchors] :
        x \in (ColX(1) - 30)..(ColX(3) + 15), raw \in {PageJan, PageOdd, PageCover0} }

InitNearest == InitCall(NearestInputs)

\* line 183
CallNearest ==
    /\ pc = "call"
    /\ fnOut' = nearestDay(fnIn.x, fnIn.anchors)
    /\ pc' = "ret"
    /\ UNCHANGED <<parseVars, fnIn>>

NextNearest == CallNearest

SpecNearest == InitNearest /\ [][NextNearest]_vars

---------------------------------------------------------------------------
(* Properties *)

\* C1: the current shift carries forward across a page boundary: when the previous
\* page ended with a shift S set by a label line, every employee row of the next page
\* that is processed before any label of that page gets shift S.
C1_ShiftCarriesForward ==
    [][ (pc = "lines" /\ Len(employees') = Len(employees) + 1
            /\ ~labelOnPage /\ prevEndShift # null)
        => employees'[Len(employees')].shift = prevEndShift ]_vars

\* C2: the result's month and year are either both the detected values (set together
\* from one text match) or both the values of the current system date, never one of each.
C2_MonthYearSameOrigin ==
    pc = "done" =>
        \/ (result.year = detectedYear /\ result.month = detectedMonth)
        \/ (result.year = today.year /\ result.month = today.month)

\* C3: month/year detection is write-once: once a page has matched (the detected month
\* is set), no later step changes the detected month or year.
C3_DetectionWriteOnce ==
    [][ detectedMonth # none
        => (detectedMonth' = detectedMonth /\ detectedYear' = detectedYear) ]_vars

Dist(x, a) == IF x >= a.x THEN x - a.x ELSE a.x - x

\* C4: with d the minimum distance from x to an anchor, nearestDay returns the day of a
\* nearest anchor when d <= 12 and returns no day only when d > 12 (or there is no anchor).
C4_ToleranceInclusive ==
    pc = "ret" =>
        LET as == Range(fnIn.anchors)
            ds == {Dist(fnIn.x, a) : a \in as}
        IN  IF as = {} THEN fnOut = none
            ELSE LET d == SetMin(ds)
                 IN  /\ d <= 12 => fnOut \in {a.day : a \in {b \in as : Dist(fnIn.x, b) = d}}
                     /\ fnOut = none => d > 12

\* C5: the line accepted as the day-number header never produces an Employee: the step
\* that visits the header line leaves the employee list unchanged.
C5_HeaderYieldsNoEmployee ==
    [][ (pc = "lines" /\ pending # <<>> /\ Head(pending) = yKeyOf(headerLine[1].y))
        => employees' = employees ]_vars

\* C6: name cleanup is idempotent: cleaning the cleaned name gives the cleaned name.
C6_CleanIdempotent ==
    pc = "ret2" => fnOut[2] = fnOut[1]

\* C7: every Employee in the accumulated list has a shift that is a member of the
\* accumulated shifts set, the initial "Unknown" included.
C7_ShiftInShifts ==
    \A i \in DOMAIN employees : employees[i].shift \in shifts

\* C7 witness: a row seen before any label (shift "Unknown") and a row under a label
C7_Witness ==
    /\ \E i \in DOMAIN employees : employees[i].shift = Unknown
    /\ \E i \in DOMAIN employees : employees[i].shift = s_B

\* C8: every key of an Employee's codes is an integer in 1..31 and every value is a
\* non-empty upper-cased code normalizeCode accepts, never a bare 1-2 digit number and
\* never a full month name.
C8_CodesWellFormed ==
    \A i \in DOMAIN employees :
        \A k \in DOMAIN employees[i].codes :
            LET v == employees[i].codes[k]
            IN  /\ k \in 1..31
                /\ Len(v) > 0
                /\ v = toUpperCase(v)
                /\ normalizeCode(v) = v
                /\ ~IsDayNumber(v)
                /\ toLowerCase(v) \notin Range(MonthNames)

\* C8 witness: a row parsed under a header whose day tokens include 0, 31, 32 and 99,
\* with code tokens under each of those columns: only 1, 4 and 31 became keys
C8_Witness ==
    /\ pc = "lines"
    /\ \E i \in DOMAIN dayAnchors : dayAnchors[i].day = 99
    /\ \E i \in DOMAIN dayAnchors : dayAnchors[i].day = 0
    /\ employees # <<>>
    /\ employees[Len(employees)].name = s_PEDRO
    /\ DOMAIN employees[Len(employees)].codes = {1, 4, 31}

\* the largest number of bare 1-2 digit tokens on one line of a page
MaxDayCount(its) ==
    SetMax({0} \cup { Cardinality({i \in DOMAIN its : yKeyOf(its[i].y) = yKeyOf(its[j].y)
                                                       /\ IsDayNumber(its[i].str)})
                      : j \in DOMAIN its })

\* C9: header acceptance depends only on the maximum per-line count of day-number
\* tokens: with a line of at least 20 the page gets a header line with that count, and
\* with at most 19 on every line the page is skipped, leaving employees and shifts as
\* they were.
C9_HeaderAcceptance ==
    [][ (pc = "page" /\ pc' # "done")
        => LET n == MaxDayCount(items')
           IN  /\ n >= 20 => (pc' = "lines" /\ DayCount(headerLine') = n)
               /\ n <= 19 => (pc' = "page" /\ p' = p + 1 /\ headerLine' = <<>>
                              /\ employees' = employees /\ shifts' = shifts) ]_vars

\* C9 witness: a page with 19 day numbers on its best line, a label line and a name row
\* was skipped after earlier pages had produced employees and shifts
C9_Witness ==
    /\ pc = "page" /\ p > 1
    /\ items = PageViews[PageShort].items
    /\ MaxDayCount(items) = 19
    /\ headerLine = <<>>
    /\ employees # <<>>
    /\ s_C \notin shifts

\* C10: classify is total and partitions: the result is "off" iff the trimmed
\* upper-cased code is one of FG, FA, FC, FE, FF, FAN, COVE, "absent" iff it is one of
\* DM, EMT, AJ, X, and "working" otherwise.
C10_ClassifyPartition ==
    pc = "ret" =>
        LET c == toUpperCase(trim(IF fnIn = null THEN <<>> ELSE fnIn))
            off == c \in {s_FG, <<"F","A">>, s_FC, s_FE, s_FF, <<"F","A","N">>, <<"C","O","V","E">>}
            absent == c \in {<<"D","M">>, <<"E","M","T">>, s_AJ, s_X}
        IN  /\ fnOut \in {"working", "off", "absent"}
            /\ (fnOut = "off") <=> off
            /\ (fnOut = "absent") <=> absent
            /\ (fnOut = "working") <=> (~off /\ ~absent)

\* C10 witness: a lower-case off code with surrounding spaces was classified "off"
C10_Witness ==
    /\ pc = "ret"
    /\ fnIn = <<" ", "f", "g", " ">>
    /\ fnOut = "off"

=============================================================================
